---------------------------- MODULE Spec2Model ----------------------------
(***************************************************************************)
(* Bootcamp / course REST handlers over a shared document store.           *)
(*                                                                         *)
(* Every request is a small process: its handler runs from one `await` to  *)
(* the next in one atomic step, and the steps of different requests        *)
(* interleave freely (the store is the only shared state, no locking).     *)
(* The first step of a handler is the arrival of the request together with *)
(* the answer of its first store call and the synchronous code after it.   *)
(***************************************************************************)
EXTENDS Integers, Sequences, FiniteSets, TLC

VARIABLES
    bootcamps,   \* Bootcamp collection: _id -> [user, name, photo]
    courses,     \* Course collection:   _id -> [bootcamp, user, title]
    sink,        \* upload directory:    file name -> request that wrote it
    nextBootcamp,\* next _id the store hands to Bootcamp.create
    nextCourse,  \* next _id the store hands to Course.create
    req          \* the requests: serial number -> request record

vars == <<bootcamps, courses, sink, nextBootcamp, nextCourse, req>>

\* Number of requests a behaviour serves (all of them may be in flight at once).
MaxRequests == 2

Requests == 1..MaxRequests

-----------------------------------------------------------------------------
(* Values *)

\* A JavaScript string holding an id, as `req.user.id` and `req.params.id`.
Str(n) == [type |-> "string", val |-> n]

\* A mongoose ObjectId, as the schema's `user` and `bootcamp` paths store it.
ObjectId(n) == [type |-> "ObjectId", val |-> n]

\* JavaScript `a !== b`: never equal across types, no conversion.
StrictNotEqual(a, b) == a # b

\* Principals the route's authorize('publisher', 'admin') lets through.
Principals ==
    { [id |-> Str(1), role |-> "publisher"],
      [id |-> Str(2), role |-> "publisher"],
      [id |-> Str(3), role |-> "admin"] }

\* Ids a request may name in its path: 1 is seeded, the others may not exist.
Ids == {1, 2}

\* Values of the `name` / `title` field a request body carries ("" = missing).
Bodies == {"n1", ""}

Digits == <<"0", "1", "2", "3", "4", "5", "6", "7", "8", "9">>

IsDigit(c) == \E d \in 1..10 : Digits[d] = c

DigitVal(c) == (CHOOSE d \in 1..10 : Digits[d] = c) - 1

\* The hex text of an ObjectId: fixed length, no dot.
IdText(n) == <<"0", Digits[n + 1]>>

RECURSIVE ParseDigits(_, _, _)
ParseDigits(s, k, acc) ==
    IF k <= Len(s) /\ IsDigit(s[k])
    THEN ParseDigits(s, k + 1, acc * 10 + DigitVal(s[k]))
    ELSE acc

\* JavaScript parseInt(s): optional sign, then the leading digits; NaN if none.
parseInt(s) ==
    LET neg   == Len(s) >= 1 /\ s[1] = "-"
        first == IF Len(s) >= 1 /\ s[1] \in {"-", "+"} THEN 2 ELSE 1
    IN  IF first <= Len(s) /\ IsDigit(s[first])
        THEN [nan |-> FALSE,
              val |-> IF neg THEN 0 - ParseDigits(s, first, 0)
                             ELSE ParseDigits(s, first, 0)]
        ELSE [nan |-> TRUE, val |-> 0]

\* String.prototype.startsWith
startsWith(s, p) == Len(s) >= Len(p) /\ SubSeq(s, 1, Len(p)) = p

\* path.parse(name).ext: from the last dot on, "" if there is none or it leads.
ext(name) ==
    LET dots == {k \in 1..Len(name) : name[k] = "."}
    IN  IF dots = {} THEN <<>>
        ELSE LET last == CHOOSE k \in dots : \A m \in dots : m <= k
             IN  IF last = 1 THEN <<>> ELSE SubSeq(name, last, Len(name))


-----------------------------------------------------------------------------
(* Configuration and request inputs *)

\* uploadConfig.max_file_upload: the configured text, and the number parsed from it.
max_file_upload == <<"1", "0", "0", "0", "0", "0", "0">>

MaxFileUpload == parseInt(max_file_upload).val

\* Earth radius in miles, the divisor of the radius conversion.
EarthRadius == 3963

NoFile == [name |-> <<>>, mimetype |-> <<>>, size |-> 0]

File(name, mimetype, size) == [name |-> name, mimetype |-> mimetype, size |-> size]

PNG == <<"i", "m", "a", "g", "e", "/", "p", "n", "g">>
JPEG == <<"i", "m", "a", "g", "e", "/", "j", "p", "e", "g">>
PLAIN == <<"t", "e", "x", "t", "/", "p", "l", "a", "i", "n">>
IMAGEX == <<"i", "m", "a", "g", "e", "x", "/", "y">>

\* req.files of an upload request: absent, without a `file` field, or a file.
Uploads ==
    { [files |-> "none", file |-> NoFile],
      [files |-> "other", file |-> NoFile] } \cup
    { [files |-> "file", file |-> f] : f \in
        { File(<<"a", ".", "p", "n", "g">>, PNG, MaxFileUpload),
          File(<<"a", ".", "p", "n", "g">>, PNG, MaxFileUpload + 1),
          File(<<"b", ".", "j", "p", "g">>, JPEG, 1),
          File(<<"n", ".", "t", "x", "t">>, PLAIN, 1),
          File(<<"n", ".", "t", "x", "t">>, PLAIN, MaxFileUpload + 1),
          File(<<"a", ".", "p", "n", "g">>, IMAGEX, 1) } }

NoUpload == [files |-> "none", file |-> NoFile]

\* The :distance path segment of a radius request.
Distances ==
    { <<"1", "0", "0">>, <<"0">>, <<"-", "5">>, <<"a", "b", "c">>, <<"7", "x">> }

NoRadius == [nan |-> FALSE, num |-> 0, den |-> 1]

NoUser == [id |-> Str(0), role |-> "none"]

\* A request that has not arrived yet.
Idle ==
    [ h |-> "", pc |-> "idle", user |-> NoUser, id |-> 0, body |-> "",
      upload |-> NoUpload, nested |-> FALSE, page |-> <<>>, limit |-> <<>>,
      distance |-> <<>>,
      found |-> FALSE, owned |-> FALSE, published |-> FALSE,
      nexts |-> <<>>, sends |-> <<>>, mutated |-> FALSE, removeFailed |-> FALSE,
      items |-> <<>>, total |-> 0, hasNext |-> FALSE, hasPrev |-> FALSE,
      queried |-> FALSE, radius |-> NoRadius, fileName |-> <<>> ]

\* Request i arrives now: requests arrive in the order of their serial numbers.
Arrives(i) ==
    /\ req[i].pc = "idle"
    /\ IF i = 1 THEN TRUE ELSE req[i - 1].pc # "idle"

\* next(err): the error is forwarded to the error middleware.
Forward(r, err) == [r EXCEPT !.nexts = Append(@, err)]

\* res.status(code).json(...): a response is sent.
Respond(r, code) == [r EXCEPT !.sends = Append(@, code)]

Done(r) == [r EXCEPT !.pc = "done"]

Put(i, r) == req' = [req EXCEPT ![i] = r]

-----------------------------------------------------------------------------
(* The store *)

\* Model.findById
findById(coll, id) == id \in DOMAIN coll

\* The ownership lookup without the query's cast: a string never equals an ObjectId.
findOneUncast(user) == \E b \in DOMAIN bootcamps : bootcamps[b].user = user

\* Bootcamp.findOne({ user }): the query casts the string to an ObjectId.
findOne(user) == \E b \in DOMAIN bootcamps : bootcamps[b].user = ObjectId(user.val)

\* doc.remove()
remove(coll, id) == [d \in DOMAIN coll \ {id} |-> coll[d]]

\* Model.create
create(coll, id, doc) == [d \in DOMAIN coll \cup {id} |-> IF d = id THEN doc ELSE coll[d]]

\* Schema validation of `required` paths (name of a bootcamp, title of a course).
Validates(body) == body # ""

\* Whether the stored owner is the principal, by value.
Owns(user, doc) == doc.user.val = user.id.val


\* `doc?.user` of a lookup that found nothing.
Undefined == [type |-> "undefined", val |-> 0]

\* The handlers' guard: `doc.user !== req.user.id && req.user.role !== 'admin'`.
NotAuthorized(owner, user) ==
    StrictNotEqual(owner, user.id) /\ user.role # "admin"

-----------------------------------------------------------------------------
(* BootcampController *)

\* GET /bootcamps/:id
getBootcamp(i) ==
    \E id \in Ids :
        /\ Arrives(i)
        /\ LET r == [Idle EXCEPT !.h = "getBootcamp", !.id = id,
                                 !.found = findById(bootcamps, id)]
           IN  IF ~r.found
               THEN Put(i, Done(Forward(r, "NotFound")))
               ELSE Put(i, Done(Respond(r, 200)))
        /\ UNCHANGED <<bootcamps, courses, sink, nextBootcamp, nextCourse>>

\* POST /bootcamps: the ownership lookup and what follows it up to the create.
createBootcamp(i) ==
    \E u \in Principals, b \in Bodies :
        /\ Arrives(i)
        /\ LET r == [Idle EXCEPT !.h = "createBootcamp", !.user = u, !.body = b,
                                 !.published = findOne(u.id)]
           IN  IF r.published /\ u.role # "admin"
               THEN Put(i, Done(Forward(r, "AlreadyPublished")))
               ELSE Put(i, [r EXCEPT !.pc = "create"])
        /\ UNCHANGED <<bootcamps, courses, sink, nextBootcamp, nextCourse>>

\* Bootcamp.create(req.body) answers: the document is stored, or validation fails.
createBootcamp_create(i) ==
    /\ req[i].h = "createBootcamp" /\ req[i].pc = "create"
    /\ IF Validates(req[i].body)
       THEN /\ bootcamps' = create(bootcamps, nextBootcamp,
                                   [user |-> ObjectId(req[i].user.id.val),
                                    name |-> req[i].body, photo |-> <<>>])
            /\ nextBootcamp' = nextBootcamp + 1
            /\ Put(i, Done(Respond([req[i] EXCEPT !.mutated = TRUE], 201)))
       ELSE /\ Put(i, Done(Forward(req[i], "BadRequest")))
            /\ UNCHANGED <<bootcamps, nextBootcamp>>
    /\ UNCHANGED <<courses, sink, nextCourse>>

\* PUT /bootcamps/:id: the lookup and the ownership check.
updateBootcamp(i) ==
    \E u \in Principals, id \in Ids, b \in Bodies :
        /\ Arrives(i)
        /\ LET found == findById(bootcamps, id)
               r == [Idle EXCEPT !.h = "updateBootcamp", !.user = u, !.id = id,
                                 !.body = b, !.found = found,
                                 !.owned = found /\ Owns(u, bootcamps[id])]
           IN  IF ~found
               THEN Put(i, Done(Forward(r, "NotFound")))
               ELSE IF NotAuthorized(bootcamps[id].user, u)
               THEN Put(i, Done(Forward(r, "InvalidCredential")))
               ELSE Put(i, [r EXCEPT !.pc = "update"])
        /\ UNCHANGED <<bootcamps, courses, sink, nextBootcamp, nextCourse>>

\* Bootcamp.findByIdAndUpdate(id, body, { runValidators }) answers.
updateBootcamp_update(i) ==
    /\ req[i].h = "updateBootcamp" /\ req[i].pc = "update"
    /\ IF ~Validates(req[i].body)
       THEN /\ Put(i, Done(Forward(req[i], "BadRequest")))
            /\ UNCHANGED bootcamps
       ELSE IF findById(bootcamps, req[i].id)
       THEN /\ bootcamps' = [bootcamps EXCEPT ![req[i].id].name = req[i].body]
            /\ Put(i, Done(Respond([req[i] EXCEPT !.mutated = TRUE], 200)))
       ELSE /\ Put(i, Done(Respond(req[i], 200)))
            /\ UNCHANGED bootcamps
    /\ UNCHANGED <<courses, sink, nextBootcamp, nextCourse>>

\* DELETE /bootcamps/:id: lookup, ownership check, remove() started but not
\* awaited, and the success response sent right behind it.
deleteBootcamp(i) ==
    \E u \in Principals, id \in Ids :
        /\ Arrives(i)
        /\ LET found == findById(bootcamps, id)
               r == [Idle EXCEPT !.h = "deleteBootcamp", !.user = u, !.id = id,
                                 !.found = found,
                                 !.owned = found /\ Owns(u, bootcamps[id])]
           IN  IF ~found
               THEN Put(i, Done(Forward(r, "NotFound")))
               ELSE IF NotAuthorized(bootcamps[id].user, u)
               THEN Put(i, Done(Forward(r, "InvalidCredential")))
               ELSE Put(i, [Respond(r, 200) EXCEPT !.pc = "remove"])
        /\ UNCHANGED <<bootcamps, courses, sink, nextBootcamp, nextCourse>>

\* The pending bootcamp.remove() settles: the document goes, or the store fails
\* and the rejection is nobody's (the handler has returned).
deleteBootcamp_remove(i) ==
    /\ req[i].h = "deleteBootcamp" /\ req[i].pc = "remove"
    /\ \E ok \in BOOLEAN :
        IF ok
        THEN /\ bootcamps' = remove(bootcamps, req[i].id)
             /\ Put(i, Done([req[i] EXCEPT !.mutated = TRUE]))
        ELSE /\ Put(i, Done([req[i] EXCEPT !.removeFailed = TRUE]))
             /\ UNCHANGED bootcamps
    /\ UNCHANGED <<courses, sink, nextBootcamp, nextCourse>>

\* GET /bootcamps/radius/:zipcode/:distance: geocoding, the conversion and the
\* geospatial query it issues.
getBootcampsInRadius(i) ==
    \E geocoded \in BOOLEAN, d \in Distances :
        /\ Arrives(i)
        /\ LET r == [Idle EXCEPT !.h = "getBootcampsInRadius", !.distance = d]
               n == parseInt(d)
           IN  IF ~geocoded
               THEN Put(i, Done(Forward(r, "BadRequest")))
               ELSE Put(i, [r EXCEPT !.pc = "find", !.queried = TRUE,
                                     !.radius = [nan |-> n.nan, num |-> n.val,
                                                 den |-> EarthRadius]])
        /\ UNCHANGED <<bootcamps, courses, sink, nextBootcamp, nextCourse>>

\* Bootcamp.find({ location: $geoWithin }) answers, or the store throws.
getBootcampsInRadius_find(i) ==
    /\ req[i].h = "getBootcampsInRadius" /\ req[i].pc = "find"
    /\ \E ok \in BOOLEAN :
        IF ok
        THEN Put(i, Done(Respond(req[i], 200)))
        ELSE Put(i, Done(Forward(req[i], "BadRequest")))
    /\ UNCHANGED <<bootcamps, courses, sink, nextBootcamp, nextCourse>>

\* `photo_${bootcamp._id}${path.parse(file.name).ext}`
photoName(id, name) == <<"p", "h", "o", "t", "o", "_">> \o IdText(id) \o ext(name)

\* `file.size > parseInt(max)`: a comparison with NaN is false.
tooLarge(size) ==
    LET max == parseInt(max_file_upload) IN ~max.nan /\ size > max.val

\* The upload checks, in the handler's order: "" when the file passes.
rejection(up) ==
    IF up.files = "none" THEN "Please upload a file"
    ELSE IF up.files # "file" THEN "TypeError"
    ELSE IF ~startsWith(up.file.mimetype, <<"i", "m", "a", "g", "e">>)
         THEN "Please upload an image file"
    ELSE IF tooLarge(up.file.size) THEN "Please upload an image size less than"
    ELSE ""

\* PUT /bootcamps/:id/photo: lookup, ownership check, the upload checks, the
\* new file name, and file.mv started.
bootcampPhotoUpload(i) ==
    \E u \in Principals, id \in Ids, up \in Uploads :
        /\ Arrives(i)
        /\ LET found == findById(bootcamps, id)
               r == [Idle EXCEPT !.h = "bootcampPhotoUpload", !.user = u,
                                 !.id = id, !.upload = up, !.found = found,
                                 !.owned = found /\ Owns(u, bootcamps[id])]
           IN  IF ~found
               THEN Put(i, Done(Forward(r, "NotFound")))
               ELSE IF NotAuthorized(bootcamps[id].user, u)
               THEN Put(i, Done(Forward(r, "InvalidCredential")))
               ELSE IF rejection(up) # ""
               THEN Put(i, Done(Forward(r, "BadRequest")))
               ELSE Put(i, [r EXCEPT !.pc = "mv",
                                     !.fileName = photoName(id, up.file.name)])
        /\ UNCHANGED <<bootcamps, courses, sink, nextBootcamp, nextCourse>>

\* file.mv calls back: with an error, or with the file written under its name.
bootcampPhotoUpload_mv(i) ==
    /\ req[i].h = "bootcampPhotoUpload" /\ req[i].pc = "mv"
    /\ \E err \in BOOLEAN :
        IF err
        THEN /\ Put(i, Done(Forward(req[i], "ServerError")))
             /\ UNCHANGED sink
        ELSE /\ sink' = create(sink, req[i].fileName, i)
             /\ Put(i, [req[i] EXCEPT !.pc = "photo"])
    /\ UNCHANGED <<bootcamps, courses, nextBootcamp, nextCourse>>

\* Bootcamp.findByIdAndUpdate(id, { photo }) answers and the response is sent.
bootcampPhotoUpload_update(i) ==
    /\ req[i].h = "bootcampPhotoUpload" /\ req[i].pc = "photo"
    /\ IF findById(bootcamps, req[i].id)
       THEN /\ bootcamps' = [bootcamps EXCEPT ![req[i].id].photo = req[i].fileName]
            /\ Put(i, Done(Respond([req[i] EXCEPT !.mutated = TRUE], 200)))
       ELSE /\ Put(i, Done(Respond(req[i], 200)))
            /\ UNCHANGED bootcamps
    /\ UNCHANGED <<courses, sink, nextBootcamp, nextCourse>>


-----------------------------------------------------------------------------
(* paginationAndPopulate middleware *)

\* The `page` and `limit` query parameters a list request may carry ("" = none).
PageParams == { <<>>, <<"1">>, <<"2">> }

LimitParams == { <<>>, <<"1">>, <<"2">> }

DefaultPage == 1

DefaultLimit == 100

\* A positive integer from the query text, the default otherwise.
positiveOr(text, default) ==
    LET n == parseInt(text) IN IF n.nan \/ n.val < 1 THEN default ELSE n.val

RECURSIVE newestFirst(_)
\* The documents by descending creation time (ids are handed out in order).
newestFirst(S) ==
    IF S = {} THEN <<>>
    ELSE LET top == CHOOSE d \in S : \A e \in S : e <= d
         IN  <<top>> \o newestFirst(S \ {top})

Min(a, b) == IF a < b THEN a ELSE b

\* The page of `matching` the query asks for, and its pagination metadata.
resourceResults(matching, pageText, limitText) ==
    LET page  == positiveOr(pageText, DefaultPage)
        limit == positiveOr(limitText, DefaultLimit)
        total == Cardinality(matching)
        skip  == (page - 1) * limit
    IN  [ items   |-> SubSeq(newestFirst(matching), skip + 1, Min(skip + limit, total)),
          total   |-> total,
          hasNext |-> page * limit < total,
          hasPrev |-> page > 1 ]

\* GET /bootcamps
getBootcamps(i) ==
    \E pg \in PageParams, lm \in LimitParams :
        /\ Arrives(i)
        /\ LET res == resourceResults(DOMAIN bootcamps, pg, lm)
               r == [Idle EXCEPT !.h = "getBootcamps", !.page = pg, !.limit = lm,
                                 !.items = res.items, !.total = res.total,
                                 !.hasNext = res.hasNext, !.hasPrev = res.hasPrev]
           IN  Put(i, Done(Respond(r, 200)))
        /\ UNCHANGED <<bootcamps, courses, sink, nextBootcamp, nextCourse>>

-----------------------------------------------------------------------------
(* CourseController *)

\* Course.find({ bootcamp }): every course of the bootcamp, in stored order.
coursesOf(bootcampId) ==
    {c \in DOMAIN courses : courses[c].bootcamp = ObjectId(bootcampId)}

RECURSIVE oldestFirst(_)
oldestFirst(S) ==
    IF S = {} THEN <<>>
    ELSE LET low == CHOOSE d \in S : \A e \in S : d <= e
         IN  <<low>> \o oldestFirst(S \ {low})

\* Every course of the bootcamp, with its count and no pagination.
allCoursesOf(bootcampId) ==
    [ items   |-> oldestFirst(coursesOf(bootcampId)),
      total   |-> Cardinality(coursesOf(bootcampId)),
      hasNext |-> FALSE,
      hasPrev |-> FALSE ]

\* The bootcamp's courses sent as the middleware's page of them.
listOfBootcampPaged(bootcampId, pg, lm) ==
    resourceResults(coursesOf(bootcampId), pg, lm)

\* The body for /bootcamps/:bootcampId/courses (the middleware's page is dropped).
listOfBootcamp(bootcampId, pg, lm) == allCoursesOf(bootcampId)

\* GET /courses (bootcampId = 0) and GET /bootcamps/:bootcampId/courses
getCourses(i) ==
    \E bootcampId \in Ids \cup {0}, pg \in PageParams, lm \in LimitParams :
        /\ Arrives(i)
        /\ LET res == IF bootcampId # 0
                      THEN listOfBootcamp(bootcampId, pg, lm)
                      ELSE resourceResults(DOMAIN courses, pg, lm)
               r == [Idle EXCEPT !.h = "getCourses", !.id = bootcampId,
                                 !.nested = bootcampId # 0,
                                 !.page = pg, !.limit = lm,
                                 !.items = res.items, !.total = res.total,
                                 !.hasNext = res.hasNext, !.hasPrev = res.hasPrev]
           IN  Put(i, Done(Respond(r, 200)))
        /\ UNCHANGED <<bootcamps, courses, sink, nextBootcamp, nextCourse>>

\* GET /courses/:id: a missing course forwards NotFound and falls through.
getCourse(i) ==
    \E id \in Ids :
        /\ Arrives(i)
        /\ LET found == findById(courses, id)
               r == [Idle EXCEPT !.h = "getCourse", !.id = id, !.found = found]
               r1 == IF ~found THEN Forward(r, "NotFound") ELSE r
           IN  Put(i, Done(Respond(r1, 200)))
        /\ UNCHANGED <<bootcamps, courses, sink, nextBootcamp, nextCourse>>

\* POST /bootcamps/:bootcampId/courses: lookup (NotFound falls through) and
\* the ownership check.
addCourse(i) ==
    \E u \in Principals, bootcampId \in Ids, b \in Bodies :
        /\ Arrives(i)
        /\ LET found == findById(bootcamps, bootcampId)
               r == [Idle EXCEPT !.h = "addCourse", !.user = u, !.id = bootcampId,
                                 !.body = b, !.found = found,
                                 !.owned = found /\ Owns(u, bootcamps[bootcampId])]
               r1 == IF ~found THEN Forward(r, "NotFound") ELSE r
               owner == IF found THEN bootcamps[bootcampId].user ELSE Undefined
           IN  IF NotAuthorized(owner, u)
               THEN Put(i, Done(Forward(r1, "InvalidCredential")))
               ELSE Put(i, [r1 EXCEPT !.pc = "create"])
        /\ UNCHANGED <<bootcamps, courses, sink, nextBootcamp, nextCourse>>

\* Course.create(req.body) answers: the course is stored, or validation fails.
addCourse_create(i) ==
    /\ req[i].h = "addCourse" /\ req[i].pc = "create"
    /\ IF Validates(req[i].body)
       THEN /\ courses' = create(courses, nextCourse,
                                 [bootcamp |-> ObjectId(req[i].id),
                                  user |-> ObjectId(req[i].user.id.val),
                                  title |-> req[i].body])
            /\ nextCourse' = nextCourse + 1
            /\ Put(i, Done(Respond([req[i] EXCEPT !.mutated = TRUE], 200)))
       ELSE /\ Put(i, Done(Forward(req[i], "BadRequest")))
            /\ UNCHANGED <<courses, nextCourse>>
    /\ UNCHANGED <<bootcamps, sink, nextBootcamp>>

\* PUT /courses/:id: lookup (NotFound falls through) and the ownership check.
updateCourse(i) ==
    \E u \in Principals, id \in Ids, b \in Bodies :
        /\ Arrives(i)
        /\ LET found == findById(courses, id)
               r == [Idle EXCEPT !.h = "updateCourse", !.user = u, !.id = id,
                                 !.body = b, !.found = found,
                                 !.owned = found /\ Owns(u, courses[id])]
               r1 == IF ~found THEN Forward(r, "NotFound") ELSE r
               owner == IF found THEN courses[id].user ELSE Undefined
           IN  IF NotAuthorized(owner, u)
               THEN Put(i, Done(Forward(r1, "InvalidCredential")))
               ELSE Put(i, [r1 EXCEPT !.pc = "update"])
        /\ UNCHANGED <<bootcamps, courses, sink, nextBootcamp, nextCourse>>

\* Course.findByIdAndUpdate(id, body, { runValidators }) answers.
updateCourse_update(i) ==
    /\ req[i].h = "updateCourse" /\ req[i].pc = "update"
    /\ IF ~Validates(req[i].body)
       THEN /\ Put(i, Done(Forward(req[i], "BadRequest")))
            /\ UNCHANGED courses
       ELSE IF findById(courses, req[i].id)
       THEN /\ courses' = [courses EXCEPT ![req[i].id].title = req[i].body]
            /\ Put(i, Done(Respond([req[i] EXCEPT !.mutated = TRUE], 200)))
       ELSE /\ Put(i, Done(Respond(req[i], 200)))
            /\ UNCHANGED courses
    /\ UNCHANGED <<bootcamps, sink, nextBootcamp, nextCourse>>

\* DELETE /courses/:id: lookup (NotFound falls through), ownership check, and
\* `await course?.remove()`, which is nothing to wait for without a course.
deleteCourse(i) ==
    \E u \in Principals, id \in Ids :
        /\ Arrives(i)
        /\ LET found == findById(courses, id)
               r == [Idle EXCEPT !.h = "deleteCourse", !.user = u, !.id = id,
                                 !.found = found,
                                 !.owned = found /\ Owns(u, courses[id])]
               r1 == IF ~found THEN Forward(r, "NotFound") ELSE r
               owner == IF found THEN courses[id].user ELSE Undefined
           IN  IF NotAuthorized(owner, u)
               THEN Put(i, Done(Forward(r1, "InvalidCredential")))
               ELSE IF ~found
               THEN Put(i, Done(Respond(r1, 200)))
               ELSE Put(i, [r1 EXCEPT !.pc = "remove"])
        /\ UNCHANGED <<bootcamps, courses, sink, nextBootcamp, nextCourse>>

\* The awaited course.remove() settles: removed and 200, or thrown and caught.
deleteCourse_remove(i) ==
    /\ req[i].h = "deleteCourse" /\ req[i].pc = "remove"
    /\ \E ok \in BOOLEAN :
        IF ok
        THEN /\ courses' = remove(courses, req[i].id)
             /\ Put(i, Done(Respond([req[i] EXCEPT !.mutated = TRUE], 200)))
        ELSE /\ Put(i, Done(Forward([req[i] EXCEPT !.removeFailed = TRUE], "BadRequest")))
             /\ UNCHANGED courses
    /\ UNCHANGED <<bootcamps, sink, nextBootcamp, nextCourse>>

-----------------------------------------------------------------------------
(* The service *)

\* The store is empty, or holds what two earlier requests left in it: one
\* bootcamp published by publisher 1, with one course the admin added to it.
Init ==
    /\ \E seeded \in BOOLEAN :
          LET stored == IF seeded THEN {1} ELSE {}
          IN  /\ bootcamps = [b \in stored |->
                                [user |-> ObjectId(1), name |-> "n0", photo |-> <<>>]]
              /\ courses = [c \in stored |->
                              [bootcamp |-> ObjectId(1), user |-> ObjectId(3),
                               title |-> "t0"]]
              /\ nextBootcamp = Cardinality(stored) + 1
              /\ nextCourse = Cardinality(stored) + 1
    /\ sink = [n \in {} |-> 0]
    /\ req = [i \in Requests |-> Idle]

Next ==
    \E i \in Requests :
        \/ getBootcamps(i)
        \/ getBootcamp(i)
        \/ createBootcamp(i)
        \/ createBootcamp_create(i)
        \/ updateBootcamp(i)
        \/ updateBootcamp_update(i)
        \/ deleteBootcamp(i)
        \/ deleteBootcamp_remove(i)
        \/ getBootcampsInRadius(i)
        \/ getBootcampsInRadius_find(i)
        \/ bootcampPhotoUpload(i)
        \/ bootcampPhotoUpload_mv(i)
        \/ bootcampPhotoUpload_update(i)
        \/ getCourses(i)
        \/ getCourse(i)
        \/ addCourse(i)
        \/ addCourse_create(i)
        \/ updateCourse(i)
        \/ updateCourse_update(i)
        \/ deleteCourse(i)
        \/ deleteCourse_remove(i)

Spec == Init /\ [][Next]_vars


\* Bootcamp publication only: who owns what, under concurrent create and delete.
NextOwnership ==
    \E i \in Requests :
        \/ getBootcamp(i)
        \/ createBootcamp(i)
        \/ createBootcamp_create(i)
        \/ deleteBootcamp(i)
        \/ deleteBootcamp_remove(i)

SpecOwnership == Init /\ [][NextOwnership]_vars

\* The list reads, with the creations that grow the collections they list.
NextList ==
    \E i \in Requests :
        \/ getBootcamps(i)
        \/ getCourses(i)
        \/ createBootcamp(i)
        \/ createBootcamp_create(i)
        \/ addCourse(i)
        \/ addCourse_create(i)

SpecList == Init /\ [][NextList]_vars

-----------------------------------------------------------------------------
(* Properties *)

Has(seq, x) == \E k \in 1..Len(seq) : seq[k] = x

\* The handlers that write to the resource their path names.
WritesById ==
    { "updateBootcamp", "deleteBootcamp", "bootcampPhotoUpload",
      "addCourse", "updateCourse", "deleteCourse" }

\* C1: a write on an existing resource is denied iff the principal is neither
\* admin nor the resource's owner; a non-admin owner is allowed.
C1_WriteAllowedIffAdminOrOwner ==
    \A i \in Requests :
        (req[i].h \in WritesById /\ req[i].found) =>
            (Has(req[i].nexts, "InvalidCredential")
                <=> ~(req[i].user.role = "admin" \/ req[i].owned))

\* Whether the principal owns a stored bootcamp, by the value of the stored id.
OwnsABootcamp(u) == \E b \in DOMAIN bootcamps : bootcamps[b].user.val = u.id.val

\* C2: a createBootcamp request is denied for prior publication exactly when,
\* at its ownership lookup, the principal owns a bootcamp and is not admin;
\* the denied request is over, has sent nothing and has created nothing.
C2_SingletonPerPublisher ==
    [][ \A i \in Requests :
          (req[i].pc = "idle" /\ req'[i].h = "createBootcamp") =>
             LET u == req'[i].user
                 denied == Has(req'[i].nexts, "AlreadyPublished")
             IN  /\ denied <=> (OwnsABootcamp(u) /\ u.role # "admin")
                 /\ denied => /\ req'[i].pc = "done"
                              /\ req'[i].sends = <<>>
                              /\ ~req'[i].mutated
                              /\ bootcamps' = bootcamps
                              /\ nextBootcamp' = nextBootcamp ]_vars

\* C2 witness: a publisher who owns a bootcamp was denied.
C2_Witness ==
    \E i \in Requests :
        /\ req[i].h = "createBootcamp"
        /\ req[i].user.role = "publisher"
        /\ OwnsABootcamp(req[i].user)
        /\ Has(req[i].nexts, "AlreadyPublished")

\* The page and limit a list request asks for.
AskedPage(r) == IF r.page = <<"2">> THEN 2 ELSE 1

AskedLimit(r) == IF r.limit = <<"1">> THEN 1 ELSE IF r.limit = <<"2">> THEN 2 ELSE 100

\* What a list request matches in the store it reads.
Matching(r) ==
    IF r.h = "getBootcamps" THEN DOMAIN bootcamps
    ELSE IF r.nested THEN {c \in DOMAIN courses : courses[c].bootcamp.val = r.id}
    ELSE DOMAIN courses

IsPaged(r, matching) ==
    /\ Len(r.items) <= AskedLimit(r)
    /\ r.hasNext <=> AskedPage(r) * AskedLimit(r) < Cardinality(matching)
    /\ r.hasPrev <=> AskedPage(r) > 1

\* C3 as claimed: every list read, the courses of one bootcamp included, sends
\* at most `limit` items, `next` iff page * limit < total, `previous` iff page > 1.
C3_EveryListIsPaged ==
    [][ \A i \in Requests :
          (req[i].pc = "idle" /\ req'[i].h \in {"getBootcamps", "getCourses"}) =>
             IsPaged(req'[i], Matching(req'[i])) ]_vars

\* C3 amended: GET /bootcamps and GET /courses are paged that way; GET
\* /bootcamps/:bootcampId/courses sends every course of the bootcamp, whatever
\* page and limit say, and no pagination.
C3_ListsPagedExceptPerBootcamp ==
    [][ \A i \in Requests :
          (req[i].pc = "idle" /\ req'[i].h \in {"getBootcamps", "getCourses"}) =>
             LET r == req'[i]
             IN  IF r.nested
                 THEN /\ {r.items[k] : k \in 1..Len(r.items)} = Matching(r)
                      /\ Len(r.items) = Cardinality(Matching(r))
                      /\ ~r.hasNext /\ ~r.hasPrev
                 ELSE IsPaged(r, Matching(r)) ]_vars

\* C3 witness: a bootcamp's course list was sent with more items than the
\* limit it asked for.
C3_Witness ==
    \E i \in Requests :
        /\ req[i].h = "getCourses" /\ req[i].nested
        /\ Has(req[i].sends, 200)
        /\ Len(req[i].items) > AskedLimit(req[i])


\* Whether an upload request got past the upload checks (file.mv was started).
Accepted(r) == r.fileName # <<>>

\* C4: an authorized upload on an existing bootcamp is accepted iff a file is
\* present, its type begins with "image/" and its size is at most the maximum;
\* a rejected one ends with BadRequest and no write to the sink or the photo.
C4_AcceptedIffImageWithinLimit ==
    \A i \in Requests :
        LET r == req[i]
            f == r.upload.file
        IN  (r.h = "bootcampPhotoUpload" /\ r.found
                /\ ~Has(r.nexts, "InvalidCredential")) =>
               /\ Accepted(r) <=>
                    /\ r.upload.files = "file"
                    /\ startsWith(f.mimetype, <<"i", "m", "a", "g", "e", "/">>)
                    /\ f.size <= MaxFileUpload
               /\ ~Accepted(r) =>
                    /\ r.nexts = <<"BadRequest">>
                    /\ ~r.mutated
                    /\ \A n \in DOMAIN sink : sink[n] # i

\* The files of the sink that belong to bootcamp b.
PhotosOf(b) ==
    {n \in DOMAIN sink : startsWith(n, <<"p", "h", "o", "t", "o", "_">> \o IdText(b))}

\* C5: once uploads to a bootcamp have been answered and none is in flight,
\* the sink holds exactly one file for it, and the photo field names that file;
\* no file belongs to two bootcamps.
C5_UploadsOverwrite ==
    /\ \A b \in Ids :
          LET ups == {i \in Requests : req[i].h = "bootcampPhotoUpload"
                                        /\ req[i].id = b /\ Accepted(req[i])}
          IN  (/\ ups # {}
               /\ \A i \in ups : req[i].pc = "done" /\ Has(req[i].sends, 200)
               /\ b \in DOMAIN bootcamps) =>
                 /\ Cardinality(PhotosOf(b)) = 1
                 /\ bootcamps[b].photo \in PhotosOf(b)
    /\ \A b, c \in Ids : b # c => PhotosOf(b) \cap PhotosOf(c) = {}

\* Whether a :distance text is a number that is not negative.
IsDistance(d) == Len(d) >= 1 /\ \A k \in 1..Len(d) : IsDigit(d[k])

\* C6: a radius request whose distance is not a number, or is negative, never
\* gets as far as the geospatial query; no query carries a NaN or negative radius.
C6_BadDistanceRejected ==
    \A i \in Requests :
        req[i].queried =>
            /\ IsDistance(req[i].distance)
            /\ ~req[i].radius.nan
            /\ req[i].radius.num >= 0

\* C7: a write whose path names an id absent from the store forwards NotFound
\* and changes nothing in the store, whatever the principal's role.
C7_MissingIdNeverMutates ==
    \A i \in Requests :
        (req[i].h \in WritesById /\ req[i].pc # "idle" /\ ~req[i].found) =>
            /\ Has(req[i].nexts, "NotFound")
            /\ ~req[i].mutated

\* C8: a request forwards an error or sends a response at most once in all.
C8_AtMostOneOutcome ==
    \A i \in Requests : Len(req[i].nexts) + Len(req[i].sends) <= 1

\* C9: a principal who is not admin owns at most one bootcamp.
C9_OneBootcampPerPublisher ==
    \A u \in Principals :
        u.role # "admin" =>
            Cardinality({b \in DOMAIN bootcamps : bootcamps[b].user.val = u.id.val}) <= 1

\* C10: a delete request that has sent its success response has its target
\* out of the store, and a failed removal never goes with a success response.
C10_RemovedBeforeSuccess ==
    \A i \in Requests :
        /\ (req[i].h = "deleteBootcamp" /\ Has(req[i].sends, 200)) =>
              /\ req[i].id \notin DOMAIN bootcamps
              /\ ~req[i].removeFailed
        /\ (req[i].h = "deleteCourse" /\ Has(req[i].sends, 200)) =>
              /\ req[i].id \notin DOMAIN courses
              /\ ~req[i].removeFailed

=============================================================================
